---- MODULE Spec2Model ----
(***************************************************************************)
(* Model of the MiniFarm AI edge node (src/src/minifarm_ai_main.py):       *)
(*   - the hourly detection scheduler MiniFarmAI.run and its shutdown,     *)
(*   - one detection cycle MiniFarmAI.detect, step by step,                *)
(*   - the MJPEG frame buffer StreamingOutput and the per-connection       *)
(*     consumption loop StreamingHandler.do_GET.                           *)
(* Spec       : the main thread (scheduler or one-shot mode) and the       *)
(*              listener thread start-up.                                  *)
(* SpecStream : the encoder callback (producer) and the viewer workers.    *)
(***************************************************************************)
EXTENDS Integers, Sequences, FiniteSets, TLC

\* ------------------------------------------------------------------ bounds
\* datetime.hour ranges over 0..23; run() only tests hours for equality and
\* membership, so the model's day has NumHours hours.
NumHours == 4
\* saturation value of the per-visit tick and cycle counters
MaxCount == 2
\* number of viewer connections and number of frames the encoder publishes
NumViewers == 2
MaxFrames == 3
\* objects one inference detects, calls of _send_to_tinyiot, seconds one
\* call may take
MaxDetections == 2
MaxCalls == 2
MaxClock == 1
\* boxes in the list a label function is applied to, and pieces a label
\* is put together from
MaxLabels == 3
MaxFrags == 3

Hours == 0 .. (NumHours - 1)
Viewers == 1 .. NumViewers
NoHour == -1

VARIABLES
  \* ---- main thread
  mode,                 \* "normal" | "test_camera"            (sys.argv[1])
  TARGET_HOURS,         \* the configured target-hour set (line 41 ships with
                        \* every hour; any subset is a configuration)
  hour,                 \* the wall clock's hour, as datetime.now().hour reads it
  pcMain,               \* position of the main thread
  current_hour,         \* run()'s local; NoHour before the first tick
  last_detection_hour,  \* self.last_detection_hour
  species_data,         \* detect(): species map is non-empty
  health_data,          \* detect(): health map is non-empty
  all_success,          \* _send_to_tinyiot(): all_success
  detect_result,        \* value returned by the last detect(): "none" before
  caught,               \* step whose exception detect() caught, or "none"
  exitCause,            \* why the main thread left its work: "none" | ...
  shutdownLog,          \* stops performed so far, in order
  encoder,              \* lores encoder running
  camera,               \* camera running
  http_server,          \* self.http_server is set (not None)
  listener,             \* listener thread: "starting"|"serving"|"failed"|"stopped"
  \* ---- history of the scheduler (observation only)
  ticksInVisit,         \* poll ticks during the current visit (saturating)
  firedInVisit,         \* cycles started during the current visit (saturating)
  failedBefore,         \* some earlier cycle ended by a caught exception
  armHour,              \* hour of the first cycle ever started, NoHour before
  armStage,             \* 1: that cycle started, 2: a later tick read another
                        \* hour, 3: the next tick reading armHour started a cycle
  acquiredAtExit,       \* encoder, camera and listener were all held when
                        \* the shutdown sequence started
  cyclePosts,           \* POST requests issued by the detect() call in flight
  \* ---- frame broadcast
  frame,                \* StreamingOutput.frame: 0 is None, n the n-th frame
  lock,                 \* holder of the condition's mutex: 0 none, -1 producer, v
  vpc,                  \* position of each viewer worker
  vframe,               \* each worker's local `frame`
  stalled,              \* viewers whose socket accepts no bytes right now
  connectedAt,          \* history: frames published when the viewer connected
  firstEmitted,         \* history: first frame the viewer emitted, 0 if none
  lastEmitted,          \* history: last frame the viewer emitted, 0 if none
  failedAt,             \* history: frames published when a viewer's write failed
  published,            \* history: number of write() calls completed
  \* ---- start-up: config resolution
  store,                \* the remote store: response of each container's /la
  cpc,                  \* position of MiniFarmAI.__init__
  config,               \* self.config: NoneVal or the config dict
  reads,                \* history: the GETs issued, in order
  \* ---- result upload
  upc,                  \* position of _send_to_tinyiot
  detections,           \* detect(): labels of the boxes of the last inference
  up_species,           \* argument species_data
  up_health,            \* argument health_data
  up_timestamp,         \* local timestamp (line 358), "" before a call
  up_ri,                \* headers['X-M2M-RI'] (line 364)
  up_resp,              \* what the store answers to each track's POST
  up_all_success,       \* local all_success
  up_result,            \* value returned, "none" before the return
  requests,             \* history: the POSTs issued by the current call
  records,              \* the store: number of content records, per track
  recordsBefore,        \* history: records when the current call started
  calls,                \* history: number of calls of _send_to_tinyiot
  clock,                \* time.time(): the wall clock, in seconds
  usedRi,               \* history: the X-M2M-RI values of all POSTs so far
  posts                 \* history: number of POSTs issued so far

mainVars == << mode, TARGET_HOURS, hour, pcMain, current_hour,
               last_detection_hour, species_data, health_data, all_success,
               detect_result, caught, exitCause, shutdownLog, encoder, camera,
               http_server, listener >>
histVars == << ticksInVisit, firedInVisit, failedBefore, armHour, armStage,
               acquiredAtExit, cyclePosts >>
streamVars == << frame, lock, vpc, vframe, stalled, connectedAt, firstEmitted,
                 lastEmitted, failedAt >>
cfgVars == << store, cpc, config, reads >>
upVars == << upc, detections, up_species, up_health,
                  up_timestamp, up_ri, up_resp,
             up_all_success, up_result, requests, records, recordsBefore,
             calls, clock, usedRi, posts >>
vars == << mainVars, histVars,
                  streamVars, published, cfgVars, upVars >>

\* ------------------------------------------------------------ main thread
DetectSteps == { "capture", "save_raw", "infer", "build_maps",
                 "save_annotated", "upload_species", "upload_health" }
\* steps of detect() whose calls can raise (camera, cv2, model)
RaisingSteps == { "capture", "save_raw", "infer", "build_maps",
                  "save_annotated" }
CycleSteps == DetectSteps \cup { "after_detect" }
LoopSteps == CycleSteps \cup { "loop_top", "sleep" }
ShutdownSteps == { "stop_encoder", "stop_camera", "check_server",
                   "http_shutdown", "server_close" }

\* run(): the firing condition of a poll tick
ShouldFireNoTarget(h, last, targets) == h # last
ShouldFireOrdered(h, last, targets) == h \in targets /\ h > last
ShouldFire(h, last, targets) == h \in targets /\ h # last

\* run(): the else branch's update of last_detection_hour
ResetLastNever(h, last) == last
ResetLastAlways(h, last) == NoHour
ResetLast(h, last) == IF h # last THEN NoHour ELSE last

\* detect(): `except Exception` catches what the steps raise, not
\* KeyboardInterrupt
DetectCatchesInferOnly(e) == e = "infer"
DetectCatches(e) == e # "KeyboardInterrupt"

Sat(n) == IF n < MaxCount THEN n + 1 ELSE MaxCount

\* history of the first fired hour across one tick reading hour h
Arm(stage, armed, h, fired) ==
  CASE stage = 0 -> IF fired THEN 1 ELSE 0
    [] stage = 1 -> IF h # armed THEN 2 ELSE 1
    [] stage = 2 -> IF h = armed THEN (IF fired THEN 3 ELSE 4) ELSE 2
    [] OTHER -> stage

\* ------------------------------------------------ remote content and JSON
\* Python values that cross the config read: None, a dict (a function from
\* its keys to strings), a list, a str (its characters grouped in tokens).
PyNone == [t |-> "none"]
PyDict(f) == [t |-> "dict", d |-> f]
PyList == [t |-> "list"]
PyStr(q) == [t |-> "str", s |-> q]
\* a field value that is None; f"{None}" renders it as these four letters
NoneStr == "None"

KeyOrder == << "name", "modelID", "outputResource", "mlModelPath" >>
Keys == { KeyOrder[i] : i \in 1 .. Len(KeyOrder) }

\* truth value Python gives to `not x`
Falsy(x) ==
  \/ x.t = "none"
  \/ x.t = "dict" /\ DOMAIN x.d = {}
  \/ x.t = "str" /\ x.s = << >>

\* dict.get(k)
DictGet(f, k) == IF k \in DOMAIN f THEN f[k] ELSE NoneStr

RECURSIVE DumpsFrom(_, _)
DumpsFrom(f, i) ==
  IF i > Len(KeyOrder) THEN << >>
  ELSE (IF KeyOrder[i] \in DOMAIN f
          THEN << KeyOrder[i], f[KeyOrder[i]] >> ELSE << >>)
       \o DumpsFrom(f, i + 1)

\* json.dumps of a dict or a list, as the token sequence of its text
Dumps(x) ==
  IF x.t = "dict" THEN << "{" >> \o DumpsFrom(x.d, 1) \o << "}" >>
  ELSE << "[", "1", "]" >>

\* json.loads of a token sequence: the value, or PyNone with ok = FALSE
\* where json raises JSONDecodeError
Loads(q) ==
  LET n == Len(q)
      pairs == (n - 2) \div 2
      keyAt(i) == q[2 * i]
  IN IF q = << "[", "1", "]" >> THEN [ok |-> TRUE, val |-> PyList]
     ELSE IF /\ n >= 2
             /\ q[1] = "{"
             /\ q[n] = "}"
             /\ n % 2 = 0
             /\ \A i \in 1 .. pairs : keyAt(i) \in Keys
       THEN [ok |-> TRUE,
             val |-> PyDict([k \in { keyAt(i) : i \in 1 .. pairs } |->
                       q[2 * (CHOOSE i \in 1 .. pairs : keyAt(i) = k) + 1]])]
       ELSE [ok |-> FALSE, val |-> PyNone]

\* a response of the store to GET <container>/la
Http(status, con) == [kind |-> "http", status |-> status, con |-> con]
TimedOut == [kind |-> "timeout"]

\* get_latest_cin_json, lines 114-150, given the response: the parsed
\* content, or None on any failure
GetLatestDictOnly(resp) ==
  IF resp.kind = "http" /\ resp.status = 200 /\ resp.con.t = "dict"
    THEN resp.con ELSE PyNone
GetLatestAnyStatus(resp) ==
  IF resp.kind = "timeout" \/ Falsy(resp.con) THEN PyNone
  ELSE IF resp.con.t = "dict" THEN resp.con
  ELSE IF resp.con.t = "str" /\ Loads(resp.con.s).ok
    THEN Loads(resp.con.s).val
  ELSE PyNone
GetLatest(resp) ==
  IF resp.kind = "timeout" THEN PyNone
  ELSE IF resp.status # 200 THEN PyNone
  ELSE IF Falsy(resp.con) THEN PyNone
  ELSE IF resp.con.t = "dict" THEN resp.con
  ELSE IF resp.con.t = "str" /\ Loads(resp.con.s).ok
    THEN Loads(resp.con.s).val
  ELSE PyNone

\* ------------------------------------------------------ config resolution
DeploySpecies == "/modelDeploymentList/modelDeploy_species"
DeployHealth == "/modelDeploymentList/modelDeploy_healthy"
ModelPaths == { "/modelRepo/m1", "/modelRepo/m2" }
Containers == { DeploySpecies, DeployHealth } \cup ModelPaths
OutputOf(c) == IF c = DeploySpecies THEN "/inference/species"
               ELSE "/inference/health"
LocationOf(c) == IF c = "/modelRepo/m1" THEN "/models/best.pt"
                 ELSE "/models/last.pt"
TINYIOT_URL == "http://YOUR_SERVER_IP:3000"

\* f"{TINYIOT_URL}{x}"
Url(x) == << TINYIOT_URL, x >>

NoConfig == [t |-> "none"]

\* the GET of one container: a path that is no container fails
Fetch(st, path) ==
  IF path \in DOMAIN st THEN GetLatest(st[path]) ELSE PyNone

\* dict.get on a value that may not be a dict raises AttributeError
IsDict(x) == x.t = "dict"

\* the config dict of lines 211-218, from the two deployment and the two
\* model descriptors
ConfigCrossed(ds, dh, ms, mh) ==
  [t |-> "cfg",
   model_species_path |-> DictGet(ms.d, "mlModelPath"),
   model_health_path |-> DictGet(ms.d, "mlModelPath"),
   output_species |-> DictGet(ds.d, "outputResource"),
   output_health |-> DictGet(dh.d, "outputResource"),
   url_species |-> Url(DictGet(ds.d, "outputResource")),
   url_health |-> Url(DictGet(ds.d, "outputResource"))]
ConfigOf(ds, dh, ms, mh) ==
  [t |-> "cfg",
   model_species_path |-> DictGet(ms.d, "mlModelPath"),
   model_health_path |-> DictGet(mh.d, "mlModelPath"),
   output_species |-> DictGet(ds.d, "outputResource"),
   output_health |-> DictGet(dh.d, "outputResource"),
   url_species |-> Url(DictGet(ds.d, "outputResource")),
   url_health |-> Url(DictGet(dh.d, "outputResource"))]

\* the descriptor check of line 207
ModelsMissing(ms, mh) == Falsy(ms) \/ Falsy(mh)

ReadOf(slot, path) == [slot |-> slot, path |-> path]

\* _load_config_from_cse, lines 186-224: the value returned and the GETs
\* issued on the way
LoadConfig(st) ==
  LET ds == Fetch(st, DeploySpecies)
      r1 == << ReadOf("deploy_species", DeploySpecies) >>
  IN IF Falsy(ds) THEN [cfg |-> NoConfig, reads |-> r1]
     ELSE
       LET dh == Fetch(st, DeployHealth)
           r2 == Append(r1, ReadOf("deploy_health", DeployHealth))
       IN IF Falsy(dh) THEN [cfg |-> NoConfig, reads |-> r2]
          ELSE IF ~IsDict(ds) \/ ~IsDict(dh)
            THEN [cfg |-> NoConfig, reads |-> r2]
          ELSE
            LET ps == DictGet(ds.d, "modelID")
                ph == DictGet(dh.d, "modelID")
                ms == Fetch(st, ps)
                mh == Fetch(st, ph)
                r4 == r2 \o << ReadOf("model_species", ps),
                               ReadOf("model_health", ph) >>
            IN IF ModelsMissing(ms, mh)
                 THEN [cfg |-> NoConfig, reads |-> r4]
               ELSE IF ~IsDict(ms) \/ ~IsDict(mh)
                 THEN [cfg |-> NoConfig, reads |-> r4]
               ELSE [cfg |-> ConfigOf(ds, dh, ms, mh), reads |-> r4]

\* line 162: `if not self.config`
ConfigRejectedNever(cfg) == FALSE
ConfigRejected(cfg) == cfg.t = "none"

\* what the store can hold in a deployment container c and in a model
\* container c: descriptors with or without each field, in both
\* representations, and contents that are no descriptor
DeployDicts(c) ==
  { f \in UNION { [D -> ModelPaths \cup { OutputOf(c) }] :
                    D \in SUBSET { "modelID", "outputResource" } } :
      \A k \in DOMAIN f : (k = "modelID") <=> (f[k] \in ModelPaths) }
ModelDicts(c) ==
  { [k \in D |-> IF k = "name" THEN "yolov8" ELSE LocationOf(c)] :
      D \in SUBSET { "name", "mlModelPath" } }
FullDict(c) ==
  IF c \in ModelPaths
    THEN [k \in { "name", "mlModelPath" } |->
            IF k = "name" THEN "yolov8" ELSE LocationOf(c)]
  ELSE [k \in { "modelID", "outputResource" } |->
          IF k = "modelID"
            THEN (IF c = DeploySpecies THEN "/modelRepo/m1"
                  ELSE "/modelRepo/m2")
            ELSE OutputOf(c)]
DictsOf(c) == IF c \in ModelPaths THEN ModelDicts(c) ELSE DeployDicts(c)
Contents(c) ==
  { PyDict(d) : d \in DictsOf(c) }
    \cup { PyStr(Dumps(PyDict(d))) : d \in DictsOf(c) }
    \cup { PyList, PyStr(Dumps(PyList)), PyNone, PyStr(<< >>),
           PyStr(<< "{", "modelID" >>) }
Responses(c) ==
  { Http(200, con) : con \in Contents(c) }
    \cup { Http(404, PyNone), Http(500, PyNone),
           Http(500, PyDict(FullDict(c))), TimedOut }
StoreOf(a, b, c, d) ==
  [p \in Containers |->
     IF p = DeploySpecies THEN a
     ELSE IF p = DeployHealth THEN b
     ELSE IF p = "/modelRepo/m1" THEN c ELSE d]

\* the store as setup_resources.py provisions it
GoodStore == [c \in Containers |-> Http(200, PyStr(Dumps(PyDict(FullDict(c)))))]

\* start-up is over: the config was resolved from the provisioned store
CfgIdle ==
  /\ store = GoodStore
  /\ cpc = "constructed"
  /\ config = LoadConfig(GoodStore).cfg
  /\ reads = LoadConfig(GoodStore).reads

Tracks == { "species", "health" }

\* no upload has run
UpFresh ==
  /\ upc = "idle"
  /\ up_species = << >>
  /\ up_health = << >>
  /\ up_timestamp = ""
  /\ up_ri = << >>
  /\ up_resp = [k \in Tracks |-> "skipped"]
  /\ up_all_success = TRUE
  /\ up_result = "none"
  /\ requests = << >>
  /\ records = [k \in Tracks |-> 0]
  /\ recordsBefore = [k \in Tracks |-> 0]
  /\ calls = 0
  /\ clock = 0
  /\ usedRi = {}
  /\ posts = 0

\* no upload has run and no inference either
UpIdle ==
  /\ detections = << >>
  /\ UpFresh

StreamIdle ==
  /\ frame = 0
  /\ lock = 0
  /\ vpc = [v \in Viewers |-> "absent"]
  /\ vframe = [v \in Viewers |-> 0]
  /\ stalled = {}
  /\ connectedAt = [v \in Viewers |-> 0]
  /\ firstEmitted = [v \in Viewers |-> 0]
  /\ lastEmitted = [v \in Viewers |-> 0]
  /\ failedAt = [v \in Viewers |-> 0]
  /\ published = 0

\* State after MiniFarmAI() returned: camera and encoder started, listener
\* thread started, last_detection_hour = -1.
Init ==
  /\ mode \in { "normal", "test_camera" }
  /\ TARGET_HOURS \in SUBSET Hours
  /\ hour \in Hours
  /\ pcMain = IF mode = "normal" THEN "loop_top" ELSE "capture"
  /\ current_hour = NoHour
  /\ last_detection_hour = NoHour
  /\ species_data = FALSE
  /\ health_data = FALSE
  /\ all_success = TRUE
  /\ detect_result = "none"
  /\ caught = "none"
  /\ exitCause = "none"
  /\ shutdownLog = << >>
  /\ encoder = TRUE
  /\ camera = TRUE
  /\ http_server = FALSE
  /\ listener = "starting"
  /\ ticksInVisit = 0
  /\ firedInVisit = 0
  /\ failedBefore = FALSE
  /\ armHour = NoHour
  /\ armStage = 0
  /\ acquiredAtExit = FALSE
  /\ cyclePosts = 0
  /\ StreamIdle
  /\ CfgIdle
  /\ UpIdle

\* The wall clock moves to another hour: the visit to `hour` ends.
ClockAdvance ==
  /\ pcMain \in LoopSteps
  /\ \E h \in Hours \ { hour } : hour' = h
  /\ ticksInVisit' = 0
  /\ firedInVisit' = 0
  /\ UNCHANGED << mode, TARGET_HOURS, pcMain, current_hour,
                  last_detection_hour, species_data, health_data, all_success,
                  detect_result, caught, exitCause, shutdownLog, encoder,
                  camera, http_server, listener, failedBefore, armHour, armStage,
                  acquiredAtExit, cyclePosts,
                  streamVars, published, cfgVars, upVars >>

\* run(): one poll tick, lines 416-429
Tick ==
  /\ pcMain = "loop_top"
  /\ current_hour' = hour
  /\ ticksInVisit' = Sat(ticksInVisit)
  /\ IF ShouldFire(hour, last_detection_hour, TARGET_HOURS)
       THEN /\ pcMain' = "capture"
            /\ caught' = "none"
            /\ firedInVisit' = Sat(firedInVisit)
            /\ armHour' = IF armStage = 0 THEN hour ELSE armHour
            /\ armStage' = Arm(armStage, armHour, hour, TRUE)
            /\ UNCHANGED last_detection_hour
       ELSE /\ pcMain' = "sleep"
            /\ last_detection_hour' = ResetLast(hour, last_detection_hour)
            /\ armStage' = Arm(armStage, armHour, hour, FALSE)
            /\ UNCHANGED armHour
            /\ UNCHANGED << caught, firedInVisit >>
  /\ UNCHANGED << mode, TARGET_HOURS, hour, species_data, health_data,
                  all_success, detect_result, exitCause, shutdownLog, encoder,
                  camera, http_server, listener, failedBefore, acquiredAtExit,
                  cyclePosts, streamVars, published, cfgVars, upVars >>

\* detect(): the order of the statements of the try block, lines 277-343
NextStepUploadBeforeSave(s) ==
  CASE s = "capture" -> "save_raw"
    [] s = "save_raw" -> "infer"
    [] s = "infer" -> "build_maps"
    [] s = "build_maps" -> "upload_species"
    [] s = "upload_species" -> "upload_health"
    [] s = "upload_health" -> "save_annotated"
    [] OTHER -> "after_detect"
NextStep(s) ==
  CASE s = "capture" -> "save_raw"
    [] s = "save_raw" -> "infer"
    [] s = "infer" -> "build_maps"
    [] s = "build_maps" -> "save_annotated"
    [] s = "save_annotated" -> "upload_species"
    [] s = "upload_species" -> "upload_health"
    [] OTHER -> "after_detect"

\* detect(): capture, save raw, inference, save annotated complete normally
DetectStep ==
  /\ pcMain \in { "capture", "save_raw", "infer", "save_annotated" }
  /\ pcMain' = NextStep(pcMain)
  /\ UNCHANGED << mode, TARGET_HOURS, hour, current_hour, last_detection_hour,
                  species_data, health_data, all_success, detect_result, caught, exitCause,
                  shutdownLog, encoder, camera, http_server, listener,
                  histVars,
                  streamVars, published, cfgVars, upVars >>

\* detect(): lines 291-317, the two maps are built from the detections
BuildMaps ==
  /\ pcMain = "build_maps"
  /\ \E hd \in BOOLEAN, sd \in BOOLEAN :
       /\ sd => hd
       /\ health_data' = hd
       /\ species_data' = sd
  /\ pcMain' = NextStep(pcMain)
  /\ UNCHANGED << mode, TARGET_HOURS, hour, current_hour, last_detection_hour,
                  all_success, detect_result, caught, exitCause, shutdownLog,
                  encoder, camera, http_server, listener, histVars,
                  streamVars, published, cfgVars, upVars >>

\* the locals of detect() and _send_to_tinyiot() die with the call
ClearLocals ==
  /\ species_data' = FALSE
  /\ health_data' = FALSE
  /\ all_success' = TRUE

\* _send_to_tinyiot(): one track; a non-201 status or a transport error
\* clears all_success, an empty map is skipped; line 404 returns all_success
Upload ==
  /\ pcMain \in { "upload_species", "upload_health" }
  /\ \E ok \in BOOLEAN :
       LET data == IF pcMain = "upload_species" THEN species_data
                   ELSE health_data
           success == IF data THEN all_success /\ ok ELSE all_success
       IN /\ data \/ ok
          /\ cyclePosts' = IF data THEN cyclePosts + 1 ELSE cyclePosts
          /\ IF pcMain = "upload_species"
               THEN /\ all_success' = success
                    /\ UNCHANGED << species_data, health_data, detect_result >>
               ELSE /\ detect_result' = IF success THEN "true" ELSE "false"
                    /\ ClearLocals
  /\ pcMain' = NextStep(pcMain)
  /\ UNCHANGED << mode, TARGET_HOURS, hour, current_hour, last_detection_hour,
                  caught, exitCause, shutdownLog, encoder, camera, http_server,
                  listener, ticksInVisit, firedInVisit, failedBefore, armHour,
                  armStage, acquiredAtExit,
                  streamVars, published, cfgVars, upVars >>

\* the main thread leaves its work and enters the finally block
StartShutdown(cause) ==
  /\ pcMain' = "stop_encoder"
  /\ exitCause' = cause
  /\ acquiredAtExit' = (encoder /\ camera /\ http_server
                        /\ listener = "serving")

\* detect(): a step raises; lines 345-349 catch it and return False
DetectRaise ==
  /\ pcMain \in RaisingSteps
  /\ IF DetectCatches(pcMain)
       THEN /\ caught' = pcMain
            /\ detect_result' = "false"
            /\ failedBefore' = TRUE
            /\ pcMain' = "after_detect"
            /\ UNCHANGED << exitCause, acquiredAtExit >>
       ELSE /\ StartShutdown("Exception")
            /\ UNCHANGED << caught, detect_result, failedBefore >>
  /\ ClearLocals
  /\ UNCHANGED << mode, TARGET_HOURS, hour, current_hour, last_detection_hour,
                  shutdownLog, encoder, camera, http_server, listener,
                  ticksInVisit, firedInVisit, armHour, armStage, cyclePosts,
                  streamVars, published, cfgVars, upVars >>

\* run() line 422, or the end of the one-shot mode (line 461); the value
\* detect() returned is dropped
AfterDetect ==
  /\ pcMain = "after_detect"
  /\ IF mode = "normal"
       THEN /\ last_detection_hour' = current_hour
            /\ pcMain' = "sleep"
            /\ UNCHANGED << exitCause, acquiredAtExit >>
       ELSE /\ StartShutdown("done")
            /\ UNCHANGED last_detection_hour
  /\ detect_result' = "none"
  /\ caught' = "none"
  /\ cyclePosts' = 0
  /\ UNCHANGED << mode, TARGET_HOURS, hour, current_hour, species_data,
                  health_data, all_success, shutdownLog, encoder, camera,
                  http_server, listener, ticksInVisit, firedInVisit,
                  failedBefore, armHour, armStage,
                  streamVars, published, cfgVars, upVars >>

\* run() line 431: time.sleep returns
Wake ==
  /\ pcMain = "sleep"
  /\ pcMain' = "loop_top"
  /\ UNCHANGED << mode, TARGET_HOURS, hour, current_hour, last_detection_hour,
                  species_data, health_data, all_success, detect_result,
                  caught, exitCause, shutdownLog, encoder, camera, http_server,
                  listener, histVars,
                  streamVars, published, cfgVars, upVars >>

\* SIGINT: KeyboardInterrupt is raised in the main thread wherever it is;
\* detect() does not catch it, run() line 433 (or the one-shot finally) does
Interrupt ==
  /\ pcMain \in LoopSteps
  /\ IF pcMain \in DetectSteps /\ DetectCatches("KeyboardInterrupt")
       THEN /\ caught' = pcMain
            /\ detect_result' = "false"
            /\ pcMain' = "after_detect"
            /\ UNCHANGED << exitCause, acquiredAtExit >>
       ELSE /\ StartShutdown("KeyboardInterrupt")
            /\ detect_result' = "none"
            /\ caught' = "none"
  /\ ClearLocals
  /\ UNCHANGED << mode, TARGET_HOURS, hour, current_hour, last_detection_hour,
                  shutdownLog, encoder, camera, http_server, listener,
                  ticksInVisit, firedInVisit, failedBefore, armHour, armStage,
                  cyclePosts, streamVars, published, cfgVars, upVars >>

\* socketserver.ThreadingTCPServer (line 255): the handler threads are not
\* daemon threads and server_close() joins every one of them; a worker runs
\* from the accept until do_GET returns
WorkersRunning == { v \in Viewers : vpc[v] \notin { "absent", "closed" } }

\* finally block, lines 436-446 (one-shot mode: lines 466-472)
ShutdownStep ==
  /\ pcMain \in ShutdownSteps
  /\ CASE pcMain = "stop_encoder" ->
            /\ encoder' = FALSE
            /\ shutdownLog' = Append(shutdownLog, "encoder")
            /\ pcMain' = "stop_camera"
            /\ UNCHANGED << camera, listener >>
       [] pcMain = "stop_camera" ->
            /\ camera' = FALSE
            /\ shutdownLog' = Append(shutdownLog, "camera")
            /\ pcMain' = "check_server"
            /\ UNCHANGED << encoder, listener >>
       [] pcMain = "check_server" ->
            /\ pcMain' = IF http_server THEN "http_shutdown" ELSE "exit"
            /\ UNCHANGED << encoder, camera, listener, shutdownLog >>
       [] pcMain = "http_shutdown" ->
            /\ listener' = "stopped"
            /\ shutdownLog' = Append(shutdownLog, "listener")
            /\ pcMain' = "server_close"
            /\ UNCHANGED << encoder, camera >>
       [] OTHER ->
            /\ WorkersRunning = {}
            /\ pcMain' = "exit"
            /\ UNCHANGED << encoder, camera, listener, shutdownLog >>
  /\ UNCHANGED << mode, TARGET_HOURS, hour, current_hour, last_detection_hour,
                  species_data, health_data, all_success, detect_result,
                  caught, exitCause, http_server, histVars,
                  streamVars, published, cfgVars, upVars >>

\* a call of the finally block raises: nothing encloses it, the rest of the
\* block is skipped and the process ends
ShutdownRaise ==
  /\ pcMain \in { "stop_encoder", "stop_camera", "http_shutdown",
                  "server_close" }
  /\ pcMain' = "exit"
  /\ exitCause' = "ShutdownError"
  /\ UNCHANGED << mode, TARGET_HOURS, hour, current_hour, last_detection_hour,
                  species_data, health_data, all_success, detect_result,
                  caught, shutdownLog, encoder, camera, http_server, listener,
                  histVars,
                  streamVars, published, cfgVars, upVars >>

\* run_server(), lines 253-256: the thread binds the port and sets
\* self.http_server, or dies on a bind error leaving it None
ListenerStart ==
  /\ listener = "starting"
  /\ pcMain # "exit"
  /\ \E ok \in BOOLEAN :
       /\ listener' = IF ok THEN "serving" ELSE "failed"
       /\ http_server' = ok
  /\ UNCHANGED << mode, TARGET_HOURS, hour, pcMain, current_hour,
                  last_detection_hour, species_data, health_data, all_success,
                  detect_result, caught, exitCause, shutdownLog, encoder,
                  camera, histVars,
                  streamVars, published, cfgVars, upVars >>

Next ==
  \/ ClockAdvance
  \/ Tick
  \/ DetectStep
  \/ BuildMaps
  \/ Upload
  \/ DetectRaise
  \/ AfterDetect
  \/ Wake
  \/ Interrupt
  \/ ShutdownStep
  \/ ShutdownRaise
  \/ ListenerStart

Spec == Init /\ [][Next]_vars

\* --------------------------------------------------------- frame broadcast
Producer == -1
ViewerIO == { "headers", "writing" }
Connected == { "headers", "loop", "locked", "waiting", "notified", "woken",
               "writing" }

\* State with the scheduler asleep, the encoder running and the listener
\* serving: what the stream threads see while the process runs.
InitStream ==
  /\ mode = "normal"
  /\ TARGET_HOURS = Hours
  /\ hour = 0
  /\ pcMain = "sleep"
  /\ current_hour = 0
  /\ last_detection_hour = 0
  /\ species_data = FALSE
  /\ health_data = FALSE
  /\ all_success = TRUE
  /\ detect_result = "none"
  /\ caught = "none"
  /\ exitCause = "none"
  /\ shutdownLog = << >>
  /\ encoder = TRUE
  /\ camera = TRUE
  /\ http_server = TRUE
  /\ listener = "serving"
  /\ ticksInVisit = 1
  /\ firedInVisit = 1
  /\ failedBefore = FALSE
  /\ armHour = 0
  /\ armStage = 1
  /\ acquiredAtExit = FALSE
  /\ cyclePosts = 0
  /\ StreamIdle
  /\ CfgIdle
  /\ UpIdle

\* StreamingOutput.write, line 52: the encoder thread takes the mutex
ProducerAcquire ==
  /\ encoder
  /\ published < MaxFrames
  /\ lock = 0
  /\ lock' = Producer
  /\ UNCHANGED << mainVars, histVars, cfgVars, upVars, published,
                  frame, vpc, vframe, stalled,
                  connectedAt, firstEmitted, lastEmitted, failedAt >>

\* StreamingOutput.write, line 53: the slot is overwritten by the new buffer
SlotKeepsFirst(old, buf) == IF old = 0 THEN buf ELSE old
SlotAfterWrite(old, buf) == buf

\* StreamingOutput.write, line 54: notify_all wakes every waiting worker
WakeOne(pcs) ==
  LET waiting == { v \in Viewers : pcs[v] = "waiting" }
  IN [v \in Viewers |->
        IF v \in waiting /\ \A w \in waiting : v <= w
          THEN "notified" ELSE pcs[v]]
WakeAll(pcs) ==
  [v \in Viewers |-> IF pcs[v] = "waiting" THEN "notified" ELSE pcs[v]]

\* StreamingOutput.write, lines 53-54: replace the frame, notify_all, release;
\* the buffer written is the encoder's next frame
ProducerPublish ==
  /\ lock = Producer
  /\ published' = published + 1
  /\ frame' = SlotAfterWrite(frame, published + 1)
  /\ vpc' = WakeAll(vpc)
  /\ lock' = 0
  /\ UNCHANGED << mainVars, histVars, cfgVars, upVars, vframe, stalled,
                  connectedAt, firstEmitted, lastEmitted, failedAt >>

\* the listener accepts GET /stream.mjpg and starts a worker thread
ViewerConnect(v) ==
  /\ listener = "serving"
  /\ vpc[v] = "absent"
  /\ vpc' = [vpc EXCEPT ![v] = "headers"]
  /\ connectedAt' = [connectedAt EXCEPT ![v] = frame]
  /\ UNCHANGED << mainVars, histVars, cfgVars, upVars, published,
                  frame, lock, vframe, stalled,
                  firstEmitted, lastEmitted, failedAt >>

\* do_GET lines 79-84: the response headers are written to the socket
ViewerHeaders(v) ==
  /\ vpc[v] = "headers"
  /\ v \notin stalled
  /\ vpc' = [vpc EXCEPT ![v] = "loop"]
  /\ UNCHANGED << mainVars, histVars, cfgVars, upVars, published,
                  frame, lock, vframe, stalled,
                  connectedAt, firstEmitted, lastEmitted, failedAt >>

\* do_GET line 90: the worker takes the condition's mutex
ViewerAcquire(v) ==
  /\ vpc[v] = "loop"
  /\ lock = 0
  /\ lock' = v
  /\ vpc' = [vpc EXCEPT ![v] = "locked"]
  /\ UNCHANGED << mainVars, histVars, cfgVars, upVars, published,
                  frame, vframe, stalled, connectedAt,
                  firstEmitted, lastEmitted, failedAt >>

\* a wait that returns at once, still holding the mutex
ViewerWaitReturnsAtOnce(v) ==
  /\ vpc[v] = "locked"
  /\ vpc' = [vpc EXCEPT ![v] = "woken"]
  /\ UNCHANGED << mainVars, histVars, cfgVars, upVars, published,
                  frame, lock, vframe, stalled,
                  connectedAt, firstEmitted, lastEmitted, failedAt >>

\* do_GET line 91: condition.wait() releases the mutex and blocks until a
\* notify
ViewerWait(v) ==
  /\ vpc[v] = "locked"
  /\ lock = v
  /\ lock' = 0
  /\ vpc' = [vpc EXCEPT ![v] = "waiting"]
  /\ UNCHANGED << mainVars, histVars, cfgVars, upVars, published,
                  frame, vframe, stalled, connectedAt,
                  firstEmitted, lastEmitted, failedAt >>

\* do_GET line 91: the notified worker re-takes the mutex, wait() returns
ViewerWake(v) ==
  /\ vpc[v] = "notified"
  /\ lock = 0
  /\ lock' = v
  /\ vpc' = [vpc EXCEPT ![v] = "woken"]
  /\ UNCHANGED << mainVars, histVars, cfgVars, upVars, published,
                  frame, vframe, stalled, connectedAt,
                  firstEmitted, lastEmitted, failedAt >>

\* the frame is read but the mutex is kept while the frame is written out
ViewerReadHoldsLock(v) ==
  /\ vpc[v] = "woken"
  /\ vframe' = [vframe EXCEPT ![v] = frame]
  /\ vpc' = [vpc EXCEPT ![v] = "writing"]
  /\ UNCHANGED << mainVars, histVars, cfgVars, upVars, published,
                  frame, lock, stalled, connectedAt,
                  firstEmitted, lastEmitted, failedAt >>

\* do_GET line 92 and the end of the with block: read the frame, release
ViewerRead(v) ==
  /\ vpc[v] = "woken"
  /\ lock = v
  /\ vframe' = [vframe EXCEPT ![v] = frame]
  /\ lock' = 0
  /\ vpc' = [vpc EXCEPT ![v] = "writing"]
  /\ UNCHANGED << mainVars, histVars, cfgVars, upVars, published,
                  frame, stalled, connectedAt,
                  firstEmitted, lastEmitted, failedAt >>

\* do_GET lines 93-98: boundary, headers and payload reach the socket
ViewerWrite(v) ==
  /\ vpc[v] = "writing"
  /\ v \notin stalled
  /\ vframe[v] # 0
  /\ lastEmitted' = [lastEmitted EXCEPT ![v] = vframe[v]]
  /\ firstEmitted' = [firstEmitted EXCEPT
                        ![v] = IF @ = 0 THEN vframe[v] ELSE @]
  /\ vpc' = [vpc EXCEPT ![v] = "loop"]
  /\ UNCHANGED << mainVars, histVars, cfgVars, upVars, published,
                  frame, lock, vframe, stalled,
                  connectedAt, failedAt >>

\* a write failure that takes the whole server down with it
ViewerFailStopsServer(v) ==
  /\ vpc[v] \in ViewerIO
  /\ vpc' = [w \in Viewers |-> IF vpc[w] = "absent" THEN "absent" ELSE "closed"]
  /\ vframe' = [w \in Viewers |-> 0]
  /\ stalled' = {}
  /\ failedAt' = [failedAt EXCEPT ![v] = frame]
  /\ listener' = "stopped"
  /\ lock' = 0
  /\ UNCHANGED << mode, TARGET_HOURS, hour, pcMain, current_hour,
                  last_detection_hour, species_data, health_data, all_success,
                  detect_result, caught, exitCause, shutdownLog, encoder,
                  camera, http_server, histVars, cfgVars, upVars, published,
                  frame, connectedAt,
                  firstEmitted, lastEmitted >>

\* a socket write raises (the peer is gone): lines 99-102 log it and the
\* worker ends; during the headers socketserver's handle_error does
ViewerFail(v) ==
  /\ vpc[v] \in ViewerIO
  /\ vpc' = [vpc EXCEPT ![v] = "closed"]
  /\ vframe' = [vframe EXCEPT ![v] = 0]
  /\ stalled' = stalled \ { v }
  /\ failedAt' = [failedAt EXCEPT ![v] = frame]
  /\ UNCHANGED << mainVars, histVars, cfgVars, upVars, published,
                  frame, lock, connectedAt,
                  firstEmitted, lastEmitted >>

\* the peer stops reading: the socket's send buffer is full
SocketStall(v) ==
  /\ vpc[v] \in Connected
  /\ v \notin stalled
  /\ stalled' = stalled \cup { v }
  /\ UNCHANGED << mainVars, histVars, cfgVars, upVars, published,
                  frame, lock, vpc, vframe, connectedAt,
                  firstEmitted, lastEmitted, failedAt >>

\* the peer reads again
SocketDrain(v) ==
  /\ v \in stalled
  /\ stalled' = stalled \ { v }
  /\ UNCHANGED << mainVars, histVars, cfgVars, upVars, published,
                  frame, lock, vpc, vframe, connectedAt,
                  firstEmitted, lastEmitted, failedAt >>

NextStream ==
  \/ ProducerAcquire
  \/ ProducerPublish
  \/ \E v \in Viewers : ViewerConnect(v)
  \/ \E v \in Viewers : ViewerHeaders(v)
  \/ \E v \in Viewers : ViewerAcquire(v)
  \/ \E v \in Viewers : ViewerWait(v)
  \/ \E v \in Viewers : ViewerWake(v)
  \/ \E v \in Viewers : ViewerRead(v)
  \/ \E v \in Viewers : ViewerWrite(v)
  \/ \E v \in Viewers : ViewerFail(v)
  \/ \E v \in Viewers : SocketStall(v)
  \/ \E v \in Viewers : SocketDrain(v)

SpecStream == InitStream /\ [][NextStream]_vars

\* ------------------------------------------------------------- start-up
\* The process has just entered MiniFarmAI(): nothing is acquired, the
\* store holds any content.
InitConfig ==
  /\ mode \in { "normal", "test_camera" }
  /\ TARGET_HOURS = Hours
  /\ hour = 0
  /\ pcMain = "init"
  /\ current_hour = NoHour
  /\ last_detection_hour = NoHour
  /\ species_data = FALSE
  /\ health_data = FALSE
  /\ all_success = TRUE
  /\ detect_result = "none"
  /\ caught = "none"
  /\ exitCause = "none"
  /\ shutdownLog = << >>
  /\ encoder = FALSE
  /\ camera = FALSE
  /\ http_server = FALSE
  /\ listener = "none"
  /\ ticksInVisit = 0
  /\ firedInVisit = 0
  /\ failedBefore = FALSE
  /\ armHour = NoHour
  /\ armStage = 0
  /\ acquiredAtExit = FALSE
  /\ cyclePosts = 0
  /\ StreamIdle
  /\ UpIdle
  /\ \E a \in Responses(DeploySpecies), b \in Responses(DeployHealth),
        c \in Responses("/modelRepo/m1"), d \in Responses("/modelRepo/m2") :
       store = StoreOf(a, b, c, d)
  /\ cpc = "load_config"
  /\ config = NoConfig
  /\ reads = << >>

\* __init__ line 160: self.config = self._load_config_from_cse()
ResolveConfig ==
  /\ cpc = "load_config"
  /\ config' = LoadConfig(store).cfg
  /\ reads' = LoadConfig(store).reads
  /\ cpc' = "check_config"
  /\ UNCHANGED << mainVars, histVars, streamVars, published, upVars, store >>

\* __init__ lines 162-165: no config raises and ends the process (normal
\* mode: uncaught; one-shot mode: caught at line 462 with ai = None, so the
\* finally block stops nothing)
CheckConfig ==
  /\ cpc = "check_config"
  /\ IF ConfigRejected(config)
       THEN /\ cpc' = "aborted"
            /\ pcMain' = "exit"
            /\ exitCause' = "ConfigLoadFailed"
       ELSE /\ cpc' = "init_camera"
            /\ UNCHANGED << pcMain, exitCause >>
  /\ UNCHANGED << mode, TARGET_HOURS, hour, current_hour,
                  last_detection_hour, species_data, health_data, all_success,
                  detect_result, caught, shutdownLog, encoder, camera,
                  http_server, listener, histVars, streamVars, published,
                  upVars, store, config, reads >>

\* _init_camera, lines 226-237
InitCamera ==
  /\ cpc = "init_camera"
  /\ camera' = TRUE
  /\ cpc' = "init_models"
  /\ UNCHANGED << mode, TARGET_HOURS, hour, pcMain, current_hour,
                  last_detection_hour, species_data, health_data, all_success,
                  detect_result, caught, exitCause, shutdownLog, encoder,
                  http_server, listener, histVars, streamVars, published,
                  upVars, store, config, reads >>

\* _init_models, lines 239-244: YOLO(path) loads the health model; it
\* raises for a path that is None
InitModels ==
  /\ cpc = "init_models"
  /\ config.t = "cfg"
  /\ config.model_health_path # NoneStr
  /\ cpc' = "start_streaming"
  /\ UNCHANGED << mainVars, histVars, streamVars, published, upVars, store,
                  config, reads >>

\* the camera or the model fails to initialise: __init__ raises
StartupRaise ==
  /\ cpc \in { "init_camera", "init_models" }
  /\ cpc' = "aborted"
  /\ pcMain' = "exit"
  /\ exitCause' = "InitError"
  /\ UNCHANGED << mode, TARGET_HOURS, hour, current_hour,
                  last_detection_hour, species_data, health_data, all_success,
                  detect_result, caught, shutdownLog, encoder, camera,
                  http_server, listener, histVars, streamVars, published,
                  upVars, store, config, reads >>

\* start_streaming_server and lines 175-180: the object is constructed
StartStreaming ==
  /\ cpc = "start_streaming"
  /\ encoder' = TRUE
  /\ http_server' = FALSE
  /\ listener' = "starting"
  /\ last_detection_hour' = NoHour
  /\ cpc' = "constructed"
  /\ pcMain' = IF mode = "normal" THEN "loop_top" ELSE "capture"
  /\ UNCHANGED << mode, TARGET_HOURS, hour, current_hour, species_data,
                  health_data, all_success, detect_result, caught, exitCause,
                  shutdownLog, camera, histVars, streamVars, published,
                  upVars, store, config, reads >>

NextConfig ==
  \/ ResolveConfig
  \/ CheckConfig
  \/ InitCamera
  \/ InitModels
  \/ StartupRaise
  \/ StartStreaming

SpecConfig == InitConfig /\ [][NextConfig]_vars

\* ----------------------------------------------------------- result upload
\* A str is the sequence of its characters.
TxtBasil == << "b", "a", "s", "i", "l" >>
TxtBASIL == << "B", "A", "S", "I", "L" >>
TxtBail == << "b", "a", "i", "l" >>
TxtPoin == << "p", "o", "i", "n" >>
TxtPoinsettia == << "p", "o", "i", "n", "s", "e", "t", "t", "i", "a" >>
TxtPoinsenttia == << "p", "o", "i", "n", "s", "e", "n", "t", "t", "i", "a" >>
TxtUnknown == << "u", "n", "k", "n", "o", "w", "n" >>
TxtHealthy == << "_", "h", "e", "a", "l", "t", "h", "y" >>
TxtUnhealthy == << "_", "u", "n", "h", "e", "a", "l", "t", "h", "y" >>
TxtWilted == << "_", "w", "i", "l", "t", "e", "d" >>
TxtWeed == << "w", "e", "e", "d" >>

\* the characters in code point order: A-Z, _, a-z
UpperCase == << "A", "B", "C", "D", "E", "F", "G", "H", "I", "J", "K", "L", "M",
                "N", "O", "P", "Q", "R", "S", "T", "U", "V", "W", "X", "Y", "Z" >>
LowerCase == << "a", "b", "c", "d", "e", "f", "g", "h", "i", "j", "k", "l", "m",
                "n", "o", "p", "q", "r", "s", "t", "u", "v", "w", "x", "y", "z" >>
CodeOrder == UpperCase \o << "_" >> \o LowerCase
CodePoint(c) == CHOOSE i \in 1 .. Len(CodeOrder) : CodeOrder[i] = c

\* str.lower()
Lower(x) ==
  [i \in 1 .. Len(x) |->
     IF \E k \in 1 .. Len(UpperCase) : UpperCase[k] = x[i]
       THEN LowerCase[CHOOSE k \in 1 .. Len(UpperCase) : UpperCase[k] = x[i]]
       ELSE x[i]]

\* x[i:].startswith(w), and `w in x`
StartsAt(x, i, w) ==
  /\ i + Len(w) - 1 <= Len(x)
  /\ \A k \in 1 .. Len(w) : x[i + k - 1] = w[k]
Contains(x, w) == \E i \in 1 .. Len(x) : StartsAt(x, i, w)

\* str.replace(old, new): the occurrences are found left to right, each
\* search starting after the previous occurrence
RECURSIVE ReplaceFrom(_, _, _, _)
ReplaceFrom(x, i, old, new) ==
  IF i > Len(x) THEN << >>
  ELSE IF StartsAt(x, i, old)
    THEN new \o ReplaceFrom(x, i + Len(old), old, new)
  ELSE << x[i] >> \o ReplaceFrom(x, i + 1, old, new)
Replace(x, old, new) == ReplaceFrom(x, 1, old, new)

\* lines 303-305: the misspelling is repaired
FixTypoFirstOnly(label) ==
  IF Contains(label, TxtPoinsenttia)
    THEN LET i == CHOOSE k \in 1 .. Len(label) :
                    /\ StartsAt(label, k, TxtPoinsenttia)
                    /\ \A m \in 1 .. (k - 1) :
                         ~StartsAt(label, m, TxtPoinsenttia)
         IN SubSeq(label, 1, i - 1) \o TxtPoinsettia
              \o SubSeq(label, i + Len(TxtPoinsenttia), Len(label))
    ELSE label
FixTypo(label) ==
  IF Contains(label, TxtPoinsenttia)
    THEN Replace(label, TxtPoinsenttia, TxtPoinsettia)
    ELSE label

\* lines 262-269: the species a label names
extract_species_from_label(label) ==
  LET label_lower == Lower(label)
  IN IF Contains(label_lower, TxtBasil) \/ Contains(label_lower, TxtBail)
       THEN TxtBasil
     ELSE IF Contains(label_lower, TxtPoin) THEN TxtPoinsettia
     ELSE TxtUnknown

\* str < str: the first differing character decides, a proper prefix is less
RECURSIVE LessFrom(_, _, _)
LessFrom(a, b, i) ==
  IF i > Len(b) THEN FALSE
  ELSE IF i > Len(a) THEN TRUE
  ELSE IF a[i] = b[i] THEN LessFrom(a, b, i + 1)
  ELSE CodePoint(a[i]) < CodePoint(b[i])
Less(a, b) == LessFrom(a, b, 1)

\* sorted(list(set))
RECURSIVE Sorted(_)
Sorted(S) ==
  IF S = {} THEN << >>
  ELSE LET least == CHOOSE a \in S : \A b \in S \ { a } : Less(a, b)
       IN << least >> \o Sorted(S \ { least })

\* class names the health model reports
HealthLabels == { TxtBasil \o TxtHealthy, TxtPoinsenttia \o TxtWilted,
                  TxtWeed }

\* what one inference can detect: the labels of the boxes, in order
Detections == UNION { [1 .. n -> HealthLabels] : n \in 0 .. MaxDetections }

\* lines 298-310: health_data[str(i)] = label after the typo repair; a map
\* with keys "0".."n-1" is the sequence of its values
HealthMap(dets) == [i \in 1 .. Len(dets) |-> FixTypo(dets[i])]

\* lines 309-317: the species found, without "unknown", sorted, enumerated
SpeciesMapAsSeen(dets) ==
  LET IsKnown(sp) == sp # TxtUnknown
  IN SelectSeq([i \in 1 .. Len(dets) |->
                  extract_species_from_label(FixTypo(dets[i]))], IsKnown)
SpeciesMap(dets) ==
  LET unique_species_set ==
        { extract_species_from_label(FixTypo(dets[i])) :
            i \in 1 .. Len(dets) } \ { TxtUnknown }
  IN Sorted(unique_species_set)

\* json.dumps of a map with keys "0".."n-1", as the tokens of its text
RECURSIVE DumpsMapFrom(_, _)
DumpsMapFrom(m, i) ==
  IF i > Len(m) THEN << >>
  ELSE << ToString(i - 1), m[i] >> \o DumpsMapFrom(m, i + 1)
DumpsMap(m) == << "{" >> \o DumpsMapFrom(m, 1) \o << "}" >>

\* lines 370-371 / 386-387: json.dumps({"timestamp": ..., "data": map})
Envelope(ts, m) ==
  << "{", "timestamp", ts, "data" >> \o DumpsMap(m) \o << "}" >>

\* lines 372 / 388: the m2m:cin of the POST body; con is the text "data"
\* (one token), lbl a list of one text
PayloadNoLabel(json_string) == [con |-> << "data" >>, lbl |-> << >>]
Payload(json_string) == [con |-> << "data" >>, lbl |-> << json_string >>]

\* line 357: strftime of the wall clock, to the second
Timestamp(t) == ToString(t)

\* lines 364 / 391: 'create_cin_' + str(t)
RequestId(t) == << "create_cin_", t >>

\* lines 369 / 385: `if <map>:` -- a track is attempted when its map is
\* non-empty, whatever happened before
AttemptIfOk(data, ok) == data # << >> /\ ok
Attempt(data, ok) == data # << >>

\* lines 376 / 394: `if r.status_code == 201`
SucceedsAny2xx(resp) == resp \in { "200", "201" }
Succeeds(resp) == resp = "201"

\* what a POST can end in: a status, or an exception of requests
PostOutcomes == { "201", "200", "500", "error" }

\* the store creates the record when it answers 201; when the request ends
\* in an exception (timeout) the record may or may not have been created
MayCreate(resp, created) ==
  /\ resp = "201" => created
  /\ resp \in { "200", "500" } => ~created

UrlOf(track) ==
  IF track = "species" THEN config.url_species ELSE config.url_health

Request(track, ri, ts, data) ==
  [track |-> track, url |-> UrlOf(track), ri |-> ri,
   body |-> Payload(Envelope(ts, data))]

\* The main thread inside detect(), past its inference.
DetectReady ==
  /\ mode = "normal"
  /\ TARGET_HOURS = Hours
  /\ hour = 0
  /\ pcMain = "build_maps"
  /\ current_hour = 0
  /\ last_detection_hour = NoHour
  /\ species_data = FALSE
  /\ health_data = FALSE
  /\ all_success = TRUE
  /\ detect_result = "none"
  /\ caught = "none"
  /\ exitCause = "none"
  /\ shutdownLog = << >>
  /\ encoder = TRUE
  /\ camera = TRUE
  /\ http_server = TRUE
  /\ listener = "serving"
  /\ ticksInVisit = 1
  /\ firedInVisit = 1
  /\ failedBefore = FALSE
  /\ armHour = 0
  /\ armStage = 1
  /\ acquiredAtExit = FALSE
  /\ cyclePosts = 0
  /\ StreamIdle
  /\ CfgIdle

\* State with detect() past its inference, about to build the maps and
\* call _send_to_tinyiot.
InitUpload ==
  /\ DetectReady
  /\ UpIdle

\* line 42
CHECK_INTERVAL_SECONDS == 600

\* a second passes between the reading of line 364 and that of line 391;
\* up_ri[2] is the time.time() reading inside the request identifier
UpClockTick ==
  /\ upc \in { "species", "health" }
  /\ clock < up_ri[2] + MaxClock
  /\ clock' = clock + 1
  /\ UNCHANGED << mainVars, histVars, streamVars, published, cfgVars,
                  upc, detections, up_species, up_health,
                  up_timestamp, up_ri, up_resp,
                  up_all_success, up_result, requests, records,
                  recordsBefore, calls, usedRi, posts >>

\* the wall clock is set (NTP step, operator) while the main thread sleeps:
\* time.time() is not monotonic
ClockSet ==
  /\ upc = "idle"
  /\ \E t \in 0 .. (MaxClock + 1) : t # clock /\ clock' = t
  /\ UNCHANGED << mainVars, histVars, streamVars, published, cfgVars,
                  upc, detections, up_species, up_health,
                  up_timestamp, up_ri, up_resp,
                  up_all_success, up_result, requests, records,
                  recordsBefore, calls, usedRi, posts >>

\* run() line 431: detect() returned, the main thread sleeps until the next
\* poll; no call starts earlier
UpSleep ==
  /\ upc = "returned"
  /\ upc' = "idle"
  /\ clock' = clock + CHECK_INTERVAL_SECONDS
  /\ UNCHANGED << mainVars, histVars, streamVars, published, cfgVars,
                  detections, up_species, up_health,
                  up_timestamp, up_ri, up_resp,
                  up_all_success, up_result, requests, records,
                  recordsBefore, calls, usedRi, posts >>

\* detect() lines 291-317 and _send_to_tinyiot lines 351-366: the maps of
\* one inference are passed in, timestamp and headers are made
UpStartWith(dets) ==
  /\ upc = "idle"
  /\ calls < MaxCalls
  /\ detections' = dets
  /\ up_species' = SpeciesMap(dets)
  /\ up_health' = HealthMap(dets)
  /\ up_timestamp' = Timestamp(clock)
  /\ up_ri' = RequestId(clock)
  /\ up_all_success' = TRUE
  /\ up_resp' = [k \in Tracks |-> "skipped"]
  /\ up_result' = "none"
  /\ requests' = << >>
  /\ recordsBefore' = records
  /\ calls' = calls + 1
  /\ upc' = "species"
  /\ UNCHANGED << mainVars, histVars, streamVars, published, cfgVars,
                  records, clock, usedRi, posts >>

\* the inference returns any list of boxes
UpStart == \E dets \in Detections : UpStartWith(dets)

\* lines 369-382: the species track
UpSpecies ==
  /\ upc = "species"
  /\ IF Attempt(up_species, up_all_success)
       THEN \E resp \in PostOutcomes, created \in BOOLEAN :
              /\ MayCreate(resp, created)
              /\ requests' = Append(requests,
                    Request("species", up_ri, up_timestamp, up_species))
              /\ up_resp' = [up_resp EXCEPT !["species"] = resp]
              /\ records' = [records EXCEPT
                               !["species"] = IF created THEN @ + 1 ELSE @]
              /\ up_all_success' = (up_all_success /\ Succeeds(resp))
              /\ usedRi' = usedRi \cup { up_ri }
              /\ posts' = posts + 1
       ELSE UNCHANGED << requests, up_resp, records, up_all_success,
                         usedRi, posts >>
  /\ upc' = "health"
  /\ UNCHANGED << mainVars, histVars, streamVars, published, cfgVars,
                  detections, up_species, up_health,
                  up_timestamp, up_ri, up_result,
                  recordsBefore, calls, clock >>

\* lines 385-400: the health track, with its own request identifier
UpHealth ==
  /\ upc = "health"
  /\ IF Attempt(up_health, up_all_success)
       THEN \E resp \in PostOutcomes, created \in BOOLEAN :
              /\ MayCreate(resp, created)
              /\ requests' = Append(requests,
                    Request("health", RequestId(clock + 1), up_timestamp,
                            up_health))
              /\ up_resp' = [up_resp EXCEPT !["health"] = resp]
              /\ records' = [records EXCEPT
                               !["health"] = IF created THEN @ + 1 ELSE @]
              /\ up_all_success' = (up_all_success /\ Succeeds(resp))
              /\ usedRi' = usedRi \cup { RequestId(clock + 1) }
              /\ posts' = posts + 1
       ELSE UNCHANGED << requests, up_resp, records, up_all_success,
                         usedRi, posts >>
  /\ upc' = "return"
  /\ UNCHANGED << mainVars, histVars, streamVars, published, cfgVars,
                  detections, up_species, up_health,
                  up_timestamp, up_ri, up_result,
                  recordsBefore, calls, clock >>

\* lines 402-404: return all_success
UpReturn ==
  /\ upc = "return"
  /\ up_result' = IF up_all_success THEN "true" ELSE "false"
  /\ upc' = "returned"
  /\ UNCHANGED << mainVars, histVars, streamVars, published, cfgVars,
                  detections, up_species, up_health,
                  up_timestamp, up_ri, up_resp,
                  up_all_success, requests, records, recordsBefore, calls,
                  clock, usedRi, posts >>

NextUpload ==
  \/ UpClockTick
  \/ UpStart
  \/ UpSpecies
  \/ UpHealth
  \/ UpReturn
  \/ UpSleep

SpecUpload == InitUpload /\ [][NextUpload]_vars

\* ------------------------------------------------------- label functions
\* labels in either case, with either keyword of basil, with the
\* misspelling, and one that names no species
NamedLabels ==
  { TxtBasil \o TxtHealthy, TxtBASIL \o TxtUnhealthy, TxtPoin \o TxtHealthy,
    TxtBail \o TxtHealthy, TxtPoinsenttia \o TxtWilted, TxtWeed }
LabelLists == UNION { [1 .. n -> NamedLabels] : n \in 0 .. MaxLabels }

\* The inference has returned a list of labels; lines 298-317 are about to
\* build the two maps from it.
InitLabels ==
  /\ DetectReady
  /\ UpFresh
  /\ detections \in LabelLists

\* the maps are built from the list at hand
UpStartGiven == UpStartWith(detections)

SpecLabels == InitLabels /\ [][UpStartGiven]_vars

\* labels put together from pieces of the misspelling, so that occurrences
\* follow one another and a piece before and a piece after an occurrence
\* spell the misspelling again
Fragments ==
  { SubSeq(TxtPoinsenttia, 1, 6), SubSeq(TxtPoinsenttia, 7, 11),
    TxtPoinsenttia, TxtWilted }
RECURSIVE Joined(_)
Joined(parts) ==
  IF parts = << >> THEN << >> ELSE Head(parts) \o Joined(Tail(parts))
FragLabels ==
  { Joined(parts) :
      parts \in UNION { [1 .. n -> Fragments] : n \in 0 .. MaxFrags } }

\* The inference has returned one box with any such label.
InitCorrect ==
  /\ DetectReady
  /\ UpFresh
  /\ \E x \in FragLabels : detections = << x >>

SpecCorrect == InitCorrect /\ [][UpStartGiven]_vars

\* the upload calls of a process whose wall clock may be set at any time
NextUploadClock ==
  \/ NextUpload
  \/ ClockSet

SpecUploadClock == InitUpload /\ [][NextUploadClock]_vars

\* ------------------------------------------------------ scheduler claims
\* a step of the main thread that is a poll tick
IsTick == pcMain = "loop_top" /\ pcMain' \in { "capture", "sleep" }

\* C1: during one visit of the wall clock to an hour, at most one detection
\* cycle is started, however many poll ticks fall into the visit and
\* whatever the cycle returned.
C1_AtMostOncePerVisit == firedInVisit <= 1

\* a visit with a cycle and at least one more poll tick after it
C1_Witness ==
  /\ firedInVisit = 1
  /\ ticksInVisit >= 2
  /\ pcMain = "sleep"
  /\ current_hour = hour

\* C2: a poll tick that reads an hour outside the target set starts no
\* cycle, whatever last_detection_hour holds.
C2_NoFireOutsideTargets ==
  [][IsTick /\ hour \notin TARGET_HOURS => pcMain' # "capture"]_vars

\* a tick has just read a non-target hour after a cycle was fired earlier
C2_Witness ==
  /\ pcMain = "sleep"
  /\ current_hour \in Hours \ TARGET_HOURS
  /\ armStage = 2

\* C3: a tick that runs no cycle and reads an hour other than
\* last_detection_hour resets it to -1; and once a tick has read another
\* hour after a cycle fired in h, the next tick reading h fires again.
C3_RearmOnOtherHour ==
  /\ [][IsTick /\ pcMain' = "sleep" /\ hour # last_detection_hour
          => last_detection_hour' = NoHour]_vars
  /\ [](armStage # 4)

\* the first fired hour was left, observed elsewhere, and fired again
C3_Witness == armStage = 3 /\ pcMain = "capture"

\* C4 as stated: the first poll tick of every visit to a target hour runs a
\* cycle, whatever ticks came before and however long ago.
C4_FirstTickAlwaysFires ==
  [][IsTick /\ ticksInVisit = 0 /\ hour \in TARGET_HOURS
       => pcMain' = "capture"]_vars

\* C4 amended: the first poll tick of a visit to a target hour h runs a
\* cycle provided the preceding tick, if any, read an hour other than h.
C4_FirstTickFiresIfOtherHourSeen ==
  [][IsTick /\ ticksInVisit = 0 /\ hour \in TARGET_HOURS
       /\ current_hour # hour => pcMain' = "capture"]_vars

\* a cycle started on the first tick of a visit, after earlier ticks
C4_Witness ==
  /\ pcMain = "capture"
  /\ ticksInVisit = 1
  /\ firedInVisit = 1
  /\ current_hour = hour
  /\ armStage >= 2

\* C5: an exception raised by a step of detect() makes detect() return
\* False and never leaves the scheduler loop: the loop goes on to its sleep
\* and only KeyboardInterrupt ends it.
C5_CycleFailureIsContained ==
  /\ [](exitCause # "Exception")
  /\ [][/\ (caught = "none" /\ caught' # "none")
             => (pcMain' = "after_detect" /\ detect_result' = "false")
        /\ (mode = "normal" /\ pcMain = "after_detect" /\ caught # "none")
             => (pcMain' \in { "after_detect", "sleep" }
                   \/ exitCause' = "KeyboardInterrupt")]_vars

\* a new cycle was started after an earlier one failed
C5_Witness ==
  /\ mode = "normal"
  /\ failedBefore
  /\ pcMain = "capture"
  /\ caught = "none"

\* C6 as stated: in the scheduler loop a cycle in flight always runs to its
\* end, update of last_detection_hour included, before shutdown starts.
C6_CycleRunsToCompletion ==
  [][mode = "normal" /\ pcMain \in CycleSteps
       => pcMain' \in CycleSteps \cup { "sleep" }]_vars

\* C7 as stated: whenever the process ends after encoder, camera and
\* listener were acquired, the encoder, the camera and the listener have
\* been stopped, all three and in that order.
C7_ShutdownOrderOnEveryExit ==
  (pcMain = "exit" /\ acquiredAtExit)
    => shutdownLog = << "encoder", "camera", "listener" >>

\* ------------------------------------------------- frame broadcast claims
\* C8 as stated: a viewer that connected before any frame existed emits as
\* its first frame exactly the first frame published after it connected;
\* no viewer emits None or a frame published before it connected.
C8_FirstFrameIsFirstPublished ==
  \A v \in Viewers :
    /\ vpc[v] = "writing" => vframe[v] > connectedAt[v]
    /\ (connectedAt[v] = 0 /\ firstEmitted[v] # 0) => firstEmitted[v] = 1

\* C8 amended: every frame a viewer emits was published after the viewer
\* connected (so it is never None and never frame N for a viewer that
\* connected after frame N) and is newer than the frame it emitted before;
\* the first one need not be the first published after connecting.
C8_OnlyFramesAfterConnect ==
  \A v \in Viewers :
    /\ vpc[v] = "writing" =>
         /\ vframe[v] > connectedAt[v]
         /\ vframe[v] > lastEmitted[v]
    /\ firstEmitted[v] # 0 => firstEmitted[v] > connectedAt[v]

\* one viewer connected before any frame, another after a frame, and both
\* have emitted
C8_Witness ==
  \E v, w \in Viewers :
    /\ connectedAt[v] = 0 /\ firstEmitted[v] # 0
    /\ connectedAt[w] > 0 /\ firstEmitted[w] # 0

\* C9: the publish never waits for a consumer: the mutex is only ever held
\* by a viewer that is at an in-memory step (entering the wait or reading
\* the frame), never by one writing to its socket, stalled or gone, and
\* that step and the producer's own steps are always able to run.
C9_PublishNeverWaitsForViewers ==
  /\ \A v \in Viewers :
       lock = v => /\ vpc[v] \in { "locked", "woken" }
                   /\ ENABLED (ViewerWait(v) \/ ViewerRead(v))
  /\ (lock = 0 /\ encoder /\ published < MaxFrames) => ENABLED ProducerAcquire
  /\ lock = Producer => ENABLED ProducerPublish

\* the producer holds the mutex for a publish while one viewer is stalled
\* in its socket write and another one is gone
C9_Witness ==
  /\ lock = Producer
  /\ \E v, w \in Viewers :
       /\ v \in stalled /\ vpc[v] = "writing" /\ vframe[v] < frame
       /\ vpc[w] = "closed"

\* C10: a write failure on one viewer's connection ends that viewer's
\* loop and nothing else: frame buffer, mutex, encoder, listener and every
\* other viewer are as before, and the dead viewer never holds the mutex.
C10_WriteFailureIsIsolated ==
  /\ [](\A v \in Viewers : vpc[v] = "closed" => lock # v)
  /\ [][\A v \in Viewers :
          (vpc[v] \in ViewerIO /\ vpc'[v] = "closed") =>
             /\ frame' = frame
             /\ lock' = lock
             /\ encoder' = encoder
             /\ listener' = listener
             /\ \A w \in Viewers \ { v } :
                  /\ vpc'[w] = vpc[w]
                  /\ vframe'[w] = vframe[w]
                  /\ (w \in stalled') = (w \in stalled)]_vars

\* after one viewer's write failed, another viewer emitted a frame that
\* was published after the failure
C10_Witness ==
  \E v, w \in Viewers :
    /\ vpc[v] = "closed"
    /\ vpc[w] = "loop"
    /\ lastEmitted[w] > failedAt[v]

\* C11: the buffer's single slot always holds the most recently published
\* frame (None before the first publish): a publish replaces it, nothing is
\* queued; and the frame a worker reads on waking is the newest one
\* published at that moment.
C11_SlotHoldsNewestFrame ==
  /\ [](frame = published)
  /\ [][\A v \in Viewers :
          (vpc[v] = "woken" /\ vpc'[v] = "writing")
            => vframe'[v] = published]_vars

\* a worker that emitted an earlier frame has read the newest one after
\* the slot was overwritten
C11_Witness ==
  \E v \in Viewers :
    /\ vpc[v] = "writing"
    /\ lastEmitted[v] >= 1
    /\ published >= 2
    /\ vframe[v] = published

\* the stream threads with sockets that always drain
NextWake ==
  \/ ProducerAcquire
  \/ ProducerPublish
  \/ \E v \in Viewers : ViewerConnect(v)
  \/ \E v \in Viewers : ViewerHeaders(v)
  \/ \E v \in Viewers : ViewerAcquire(v)
  \/ \E v \in Viewers : ViewerWait(v)
  \/ \E v \in Viewers : ViewerWake(v)
  \/ \E v \in Viewers : ViewerRead(v)
  \/ \E v \in Viewers : ViewerWrite(v)
  \/ \E v \in Viewers : ViewerFail(v)

\* threads that can run do run; a thread waiting for the mutex gets it if
\* the mutex keeps being released
SpecStreamFair ==
  /\ InitStream
  /\ [][NextWake]_vars
  /\ WF_vars(ProducerPublish)
  /\ \A v \in Viewers :
       /\ SF_vars(ViewerWake(v))
       /\ WF_vars(ViewerRead(v))
       /\ WF_vars(ViewerWait(v))

\* C12: a publish wakes every worker that is waiting at that moment, and
\* each worker so woken eventually reads a frame at least as new as the
\* published one and goes on to emit it.
C12_PublishWakesAllWaiters ==
  /\ [][published' = published + 1 =>
          \A v \in Viewers : vpc[v] = "waiting" => vpc'[v] = "notified"]_vars
  /\ [][/\ published' >= published
        /\ \A v \in Viewers :
             (vpc[v] = "woken" /\ vpc'[v] = "writing")
               => vframe'[v] >= published]_vars
  /\ \A v \in Viewers : (vpc[v] = "notified") ~> (vpc[v] = "writing")

\* one publish woke every viewer at once
C12_Witness ==
  /\ published >= 1
  /\ \A v \in Viewers : vpc[v] = "notified"

\* ------------------------------------------------ config resolution claims
\* the descriptor a container holds, whichever representation carries it
Describes(c, d) ==
  /\ store[c].kind = "http"
  /\ store[c].con \in { PyDict(d), PyStr(Dumps(PyDict(d))) }
HoldsDescriptor(c) == \E d \in DictsOf(c) : d # << >> /\ Describes(c, d)
DescOf(c) == CHOOSE d \in DictsOf(c) : Describes(c, d)

\* the read of container c fails: non-200 status, timeout, empty or
\* malformed content
ReadFails(c) ==
  \/ store[c].kind = "timeout"
  \/ store[c].status # 200
  \/ ~HoldsDescriptor(c)

\* the model read of the track whose deployment container is c fails
ModelReadFails(c) ==
  /\ ~ReadFails(c)
  /\ \/ "modelID" \notin DOMAIN DescOf(c)
     \/ ReadFails(DescOf(c)["modelID"])

Resolved == cpc # "load_config"

\* C13: if any of the four reads fails (non-200 status, empty or malformed
\* content, timeout), resolve returns no config, whatever the other reads
\* give.
C13_ResolveFailsClosed ==
  (Resolved /\ (\/ ReadFails(DeploySpecies) \/ ReadFails(DeployHealth)
                \/ ModelReadFails(DeploySpecies)
                \/ ModelReadFails(DeployHealth)))
    => config = NoConfig

\* only the health-track model read failed, and resolve returned no config
C13_Witness ==
  /\ cpc = "aborted"
  /\ config = NoConfig
  /\ ~ReadFails(DeploySpecies) /\ ~ReadFails(DeployHealth)
  /\ ~ModelReadFails(DeploySpecies)
  /\ ModelReadFails(DeployHealth)
  /\ Len(reads) = 4

ConfigComplete(cfg) ==
  /\ cfg.model_species_path # NoneStr
  /\ cfg.model_health_path # NoneStr
  /\ cfg.output_species # NoneStr
  /\ cfg.output_health # NoneStr
  /\ cfg.url_species # Url(NoneStr)
  /\ cfg.url_health # Url(NoneStr)

\* C14 as stated: a config that resolve returns has the model location, the
\* output resource and the output URL of both tracks, none of them None.
C14_ConfigIsComplete ==
  (Resolved /\ config # NoConfig) => ConfigComplete(config)

\* C15: in a resolved config each track's output URL is the base URL
\* followed by the outputResource of that track's own deployment
\* descriptor, and its model location comes from the model descriptor
\* that this descriptor's modelID names.
C15_TracksNotCrossed ==
  (Resolved /\ config # NoConfig) =>
    LET ds == DescOf(DeploySpecies)
        dh == DescOf(DeployHealth)
    IN /\ config.url_species = << TINYIOT_URL, DictGet(ds, "outputResource") >>
       /\ config.url_health = << TINYIOT_URL, DictGet(dh, "outputResource") >>
       /\ config.output_species = DictGet(ds, "outputResource")
       /\ config.output_health = DictGet(dh, "outputResource")
       /\ config.model_species_path
            = DictGet(DescOf(ds["modelID"]), "mlModelPath")
       /\ config.model_health_path
            = DictGet(DescOf(dh["modelID"]), "mlModelPath")

\* both tracks resolved, each from its own containers
C15_Witness ==
  /\ cpc = "constructed"
  /\ config # NoConfig
  /\ config.url_health = << TINYIOT_URL, "/inference/health" >>
  /\ config.url_species = << TINYIOT_URL, "/inference/species" >>
  /\ config.model_health_path = "/models/last.pt"
  /\ config.model_species_path = "/models/best.pt"

\* the same response with a structured content replaced by its JSON text
Structured(resp) ==
  resp.kind = "http" /\ resp.status = 200 /\ resp.con.t \in { "dict", "list" }
AsText(resp) == Http(200, PyStr(Dumps(resp.con)))
TextStore(c) == [p \in Containers |-> IF p = c THEN AsText(store[p])
                                      ELSE store[p]]

\* C16 as stated: for every structured value d the read gives the same
\* result for content d and for content json.dumps(d), and resolve gives
\* the same config from either.
C16_BothFormsSameResult ==
  \A c \in Containers :
    (Resolved /\ Structured(store[c])) =>
      /\ GetLatest(store[c]) = GetLatest(AsText(store[c]))
      /\ LoadConfig(store).cfg = LoadConfig(TextStore(c)).cfg

\* C16 amended: the read gives the same result for both forms of every
\* non-empty dict d, and resolve gives the same config from either form of
\* every structured value.
C16_BothFormsSameForDescriptors ==
  \A c \in Containers :
    (Resolved /\ Structured(store[c])) =>
      /\ (store[c].con.t = "dict" /\ DOMAIN store[c].con.d # {})
           => /\ GetLatest(store[c]) = GetLatest(AsText(store[c]))
              /\ GetLatest(store[c]) = store[c].con
      /\ LoadConfig(store).cfg = LoadConfig(TextStore(c)).cfg

\* a config resolved from descriptors of which some came as dicts and some
\* as JSON text
C16_Witness ==
  /\ cpc = "constructed"
  /\ config # NoConfig
  /\ store[DeploySpecies].con.t = "str"
  /\ store[DeployHealth].con.t = "dict"
  /\ \E c \in ModelPaths : store[c].kind = "http" /\ store[c].con.t = "dict"
  /\ \E c \in ModelPaths : store[c].kind = "http" /\ store[c].con.t = "str"

NothingStarted ==
  /\ ~camera
  /\ ~encoder
  /\ listener = "none"
  /\ pcMain \in { "init", "exit" }
  /\ cpc \in { "check_config", "aborted" }
  /\ ticksInVisit = 0
  /\ firedInVisit = 0

\* C17 as stated: when resolve fails, no container was read more than once
\* (at most four reads), and the process aborts without camera, model,
\* listener, scheduler tick or detection cycle.
C17_NoContainerReadTwice ==
  (Resolved /\ config = NoConfig) =>
    /\ Len(reads) <= 4
    /\ \A i, j \in 1 .. Len(reads) : i # j => reads[i].path # reads[j].path
    /\ NothingStarted

\* C17 amended: when resolve fails, each of the four reads (species
\* deployment, health deployment, species model, health model) was issued
\* at most once, so at most four GETs, and the process aborts without
\* camera, model, listener, scheduler tick or detection cycle.
C17_FatalWithoutRetry ==
  (Resolved /\ config = NoConfig) =>
    /\ Len(reads) <= 4
    /\ \A i, j \in 1 .. Len(reads) : i # j => reads[i].slot # reads[j].slot
    /\ NothingStarted

\* resolve failed after all four reads and the process ended
C17_Witness ==
  /\ cpc = "aborted"
  /\ exitCause = "ConfigLoadFailed"
  /\ config = NoConfig
  /\ Len(reads) = 4

\* ------------------------------------------------------------ upload claims
Attempted(track) == \E i \in 1 .. Len(requests) : requests[i].track = track
MapOf(track) == IF track = "species" THEN up_species ELSE up_health
Returned == upc = "returned"

\* C18: upload returns true iff every attempted track succeeded; a track is
\* attempted exactly when its map is non-empty and succeeds exactly when
\* its POST returns 201; an empty track issues no request and does not
\* affect the result.
C18_TrueIffAllAttemptedSucceed ==
  Returned =>
    /\ \A k \in Tracks :
         /\ Attempted(k) <=> MapOf(k) # << >>
         /\ ~Attempted(k) <=> up_resp[k] = "skipped"
    /\ Len(requests) = Cardinality({ k \in Tracks : MapOf(k) # << >> })
    /\ up_result = "true" <=>
         \A k \in Tracks : Attempted(k) => up_resp[k] = "201"

\* a call with an empty species map and a health POST answered 201 returned
\* true after one request
C18_Witness ==
  /\ Returned
  /\ up_species = << >>
  /\ up_health # << >>
  /\ up_resp["health"] = "201"
  /\ up_result = "true"
  /\ Len(requests) = 1

\* C19: the health POST is issued whenever the health map is non-empty,
\* whatever the species POST ended in; no record is ever removed; with
\* species answered 201 and health answered 500 the call returns false and
\* exactly one new record exists, in the species track.
C19_TracksIndependent ==
  /\ [](upc \in { "return", "returned" } =>
          (up_health # << >> <=> Attempted("health")))
  /\ [][\A k \in Tracks : records'[k] >= records[k]]_vars
  /\ []((Returned /\ up_resp["species"] = "201" /\ up_resp["health"] = "500")
          => /\ up_result = "false"
             /\ records["species"] = recordsBefore["species"] + 1
             /\ records["health"] = recordsBefore["health"])

\* the species POST raised, the health POST was still issued and created
\* its record
C19_Witness ==
  /\ Returned
  /\ up_resp["species"] = "error"
  /\ up_resp["health"] = "201"
  /\ Attempted("health")
  /\ records["health"] = recordsBefore["health"] + 1
  /\ up_result = "false"

\* C20 as stated: every upload POST carries the serialized envelope
\* {timestamp, data: map} in the content field con of the record it creates.
C20_EnvelopeInCon ==
  \A i \in 1 .. Len(requests) :
    requests[i].body.con =
      Envelope(up_timestamp, MapOf(requests[i].track))

\* C20 amended: every upload POST carries the serialized envelope
\* {timestamp, data: map} as the single element of the label list lbl of
\* the record it creates, whose content field con is the constant "data",
\* for both tracks.
C20_EnvelopeInLabel ==
  \A i \in 1 .. Len(requests) :
    /\ requests[i].body.lbl =
         << Envelope(up_timestamp, MapOf(requests[i].track)) >>
    /\ requests[i].body.con = << "data" >>

\* both tracks were posted in one call, each with its own map in its label
C20_Witness ==
  /\ Len(requests) = 2
  /\ requests[1].track = "species"
  /\ requests[2].track = "health"
  /\ requests[1].body.lbl # requests[2].body.lbl

\* C21 as stated: every upload POST carries a request identifier distinct
\* from that of every other upload POST, within one call and across calls,
\* at any clock values.
C21_RequestIdsDistinct ==
  Cardinality(usedRi) = posts

\* ------------------------------------------------------------- label claims
LabelSet(dets) == { dets[i] : i \in 1 .. Len(dets) }
MapsBuilt == upc = "species"

\* the keyword table, matched on the lower-cased label: the first row that
\* matches names the species
Names(label, sp) ==
  LET l == Lower(label)
      basil == Contains(l, TxtBasil) \/ Contains(l, TxtBail)
  IN \/ sp = TxtBasil /\ basil
     \/ sp = TxtPoinsettia /\ ~basil /\ Contains(l, TxtPoin)

\* C22: the species map depends only on the set of detected labels, not on
\* their order or multiplicity; it enumerates from "0" the distinct species
\* the keyword table matches case-insensitively, in lexicographic order,
\* without "unknown"; {basil_healthy, BASIL_unhealthy, poin_healthy} in any
\* order gives {"0": "basil", "1": "poinsettia"}.
C22_SpeciesMapFromLabelSet ==
  MapsBuilt =>
    /\ \A other \in LabelLists :
         LabelSet(other) = LabelSet(detections)
           => SpeciesMap(other) = up_species
    /\ { up_species[i] : i \in 1 .. Len(up_species) }
         = { sp \in { TxtBasil, TxtPoinsettia } :
               \E label \in LabelSet(detections) : Names(label, sp) }
    /\ \A i, j \in 1 .. Len(up_species) :
         i < j => Less(up_species[i], up_species[j])
    /\ LabelSet(detections) = { TxtBasil \o TxtHealthy, TxtBASIL \o TxtUnhealthy,
                                TxtPoin \o TxtHealthy }
         => up_species = << TxtBasil, TxtPoinsettia >>

\* the three labels of the example, poinsettia first and basil twice, gave
\* the map basil, poinsettia
C22_Witness ==
  /\ MapsBuilt
  /\ detections = << TxtPoin \o TxtHealthy, TxtBASIL \o TxtUnhealthy,
                     TxtBasil \o TxtHealthy >>
  /\ up_species = << TxtBasil, TxtPoinsettia >>

\* C23: label correction is idempotent: correcting a corrected label changes
\* nothing, and a corrected label never contains the misspelling.
C23_CorrectionIdempotent ==
  MapsBuilt =>
    \A i \in 1 .. Len(up_health) :
      /\ up_health[i] = FixTypo(detections[i])
      /\ FixTypo(up_health[i]) = up_health[i]
      /\ ~Contains(up_health[i], TxtPoinsenttia)

\* a label in which the pieces around an occurrence of the misspelling
\* spell the misspelling was corrected, and the result is free of it
C23_Witness ==
  /\ MapsBuilt
  /\ detections = << SubSeq(TxtPoinsenttia, 1, 6) \o TxtPoinsenttia
                       \o SubSeq(TxtPoinsenttia, 7, 11) >>
  /\ up_health = << SubSeq(TxtPoinsenttia, 1, 6) \o TxtPoinsettia
                      \o SubSeq(TxtPoinsenttia, 7, 11) >>

\* ------------------------------------------------ shutdown with viewers
\* The stream threads together with SIGINT and the finally block of run();
\* the calls of the finally block do not raise here.
NextShutdown ==
  \/ NextWake
  \/ Interrupt
  \/ ShutdownStep

\* every thread that can run does run: the main thread goes through the
\* finally block, the encoder thread and the workers as in SpecStreamFair,
\* and a worker that can go on (headers, mutex, socket write) does
SpecShutdown ==
  /\ InitStream
  /\ [][NextShutdown]_vars
  /\ WF_vars(ShutdownStep)
  /\ WF_vars(ProducerPublish)
  /\ \A v \in Viewers :
       /\ WF_vars(ViewerHeaders(v))
       /\ SF_vars(ViewerAcquire(v))
       /\ SF_vars(ViewerWake(v))
       /\ WF_vars(ViewerRead(v))
       /\ WF_vars(ViewerWait(v))
       /\ WF_vars(ViewerWrite(v))

\* C24 as stated: after an external interrupt the finally block runs to
\* "Exit complete.", also when workers are blocked in condition.wait() at
\* the time the encoder is stopped.
C24_ShutdownCompletes ==
  (exitCause = "KeyboardInterrupt") ~> (pcMain = "exit")

\* ---------------------------------------------------- detection cycle order
StepOrder == << "capture", "save_raw", "infer", "build_maps",
                "save_annotated", "upload_species", "upload_health" >>
Position(s) == CHOOSE i \in 1 .. Len(StepOrder) : StepOrder[i] = s

\* C25: within one detect() call the steps follow one another in the order
\* capture, save raw image, inference, map building, save annotated image,
\* upload; a POST is issued only at the upload steps of a call in which no
\* step raised, so no POST has been issued while any of the five earlier
\* steps is still to be done; and an exception raised by one of the five
\* makes the call return False with no POST issued.
C25_StepsOrderedUploadLast ==
  /\ [][(pcMain \in DetectSteps /\ pcMain' \in DetectSteps /\ pcMain' # pcMain)
         => Position(pcMain') = Position(pcMain) + 1]_vars
  /\ [][cyclePosts' > cyclePosts
         => pcMain \in { "upload_species", "upload_health" }
            /\ caught = "none"]_vars
  /\ [](pcMain \in RaisingSteps => cyclePosts = 0)
  /\ [][(caught = "none" /\ caught' # "none")
         => /\ pcMain \in RaisingSteps
            /\ pcMain' = "after_detect"
            /\ detect_result' = "false"
            /\ cyclePosts' = 0]_vars
  /\ [](caught # "none"
         => pcMain = "after_detect" /\ detect_result = "false"
            /\ cyclePosts = 0)

\* rendering or saving the annotated image raised: the call has returned
\* False and no POST was issued
C25_Witness ==
  /\ caught = "save_annotated"
  /\ pcMain = "after_detect"
  /\ detect_result = "false"
  /\ cyclePosts = 0

====
